---- MODULE Spec2Model ----
(***************************************************************************)
(* A model of f2's batch renaming operation (operation.go): the run of an  *)
(* Operation (findMatches, replace, apply, rename, handleErrors,           *)
(* writeToFile) and of its reverse (undo), over a small filesystem.        *)
(*                                                                         *)
(* A path is a sequence of names; <<>> is the working directory ".".       *)
(* A filesystem is a function from the paths that exist to their entries;  *)
(* an entry carries its kind and, as its content, the path it had in the   *)
(* initial filesystem.                                                     *)
(***************************************************************************)
EXTENDS Integers, Sequences, FiniteSets, TLC

\* ------------------------------------------------------------- bounds

\* The largest number of entries of the initial filesystem.
MaxEntries == 2

\* The largest number of candidates of a batch handed to sortMatches alone.
MaxBatch == 3

\* The names of the initial filesystem's entries, in ReadDir's (sorted) order.
NamesSeq == <<"a", "b">>

Names == {NamesSeq[i] : i \in 1..Len(NamesSeq)}

\* The names os.ReadDir can list, in its (sorted) order: the hidden one first.
DirNames == <<".a", "a", "b">>

\* The numbering token of a replacement string.
IndexToken == "%d"

\* The numbering token with a start and a step, and a malformed one.
IndexTokenFrom5By2 == "5%d2"

BadIndexToken == "%xd"

IndexTokens == {IndexToken, IndexTokenFrom5By2}

\* A variable token of a replacement string.
VarToken == "{{v}}"

\* What the substitution (replaceString, handleVariables) can produce for a name.
RuleStrs == {<<"a">>, <<"b">>, <<"a", "b">>, <<IndexToken>>}

\* ------------------------------------------------------------- paths

RECURSIVE SumLen(_)
SumLen(p) == IF p = <<>> THEN 0 ELSE Len(Head(p)) + SumLen(Tail(p))

\* len() of the string a path is written as: "." for the working directory,
\* the names joined by separators otherwise.
StrLen(p) == IF p = <<>> THEN 1 ELSE SumLen(p) + Len(p) - 1

\* filepath.Join
Join(dir, rel) == dir \o rel

\* filepath.Dir and filepath.Base
Dir(p) == SubSeq(p, 1, Len(p) - 1)

Base(p) == p[Len(p)]

IsPrefix(a, b) == Len(a) <= Len(b) /\ SubSeq(b, 1, Len(a)) = a

\* strings.Contains(target, "/")
HasSeparator(rel) == Len(rel) > 1

\* -------------------------------------------------------- filesystem

IsDirAt(f, p) == p = <<>> \/ (p \in DOMAIN f /\ f[p].kind = "dir")

\* The directories os.MkdirAll(p) has to create: p and its missing ancestors.
MissingDirs(f, p) == {q \in {SubSeq(p, 1, k) : k \in 1..Len(p)} : q \notin DOMAIN f}

\* os.MkdirAll: fails when p or an ancestor of p exists and is no directory,
\* and then creates nothing; directories that exist are left alone.
MkdirAll(f, p) ==
    IF \E k \in 1..Len(p) : SubSeq(p, 1, k) \in DOMAIN f /\ f[SubSeq(p, 1, k)].kind # "dir"
    THEN [ok |-> FALSE, fs |-> f]
    ELSE [ok |-> TRUE,
          fs |-> [q \in DOMAIN f \cup MissingDirs(f, p) |->
                    IF q \in DOMAIN f THEN f[q] ELSE [kind |-> "dir", id |-> <<"mkdir">> \o q]]]

\* The paths at and under p.
Subtree(f, p) == {q \in DOMAIN f : IsPrefix(p, q)}

\* os.Rename(src, dst): src has to exist, the directory of dst has to exist,
\* dst must not be a directory (Go refuses it before the system call), a
\* directory is not moved onto a file nor into itself; a file replaces a
\* file that is in its way. A directory moves with all that it holds.
RenameOk(f, src, dst) ==
    /\ src \in DOMAIN f
    /\ IsDirAt(f, Dir(dst))
    /\ ~(dst \in DOMAIN f /\ f[dst].kind = "dir")
    /\ ~(f[src].kind = "dir" /\ dst \in DOMAIN f)
    /\ ~(f[src].kind = "dir" /\ IsPrefix(src, dst))

Moved(src, dst, q) == dst \o SubSeq(q, Len(src) + 1, Len(q))

OsRename(f, src, dst) ==
    IF ~RenameOk(f, src, dst) THEN [ok |-> FALSE, fs |-> f]
    ELSE IF src = dst THEN [ok |-> TRUE, fs |-> f]
    ELSE LET gone == Subtree(f, src)
             kept == (DOMAIN f \ gone) \ {dst}
             new  == {Moved(src, dst, q) : q \in gone}
         IN [ok |-> TRUE,
             fs |-> [q \in kept \cup new |->
                       IF q \in new
                       THEN f[CHOOSE o \in gone : Moved(src, dst, o) = q]
                       ELSE f[q]]]

\* ------------------------------------------------------- the operation

VARIABLES
    fs,            \* the filesystem
    directories,   \* op.directories: the directories whose entries are renamed
    paths,         \* op.paths
    matches,       \* op.matches
    conflicts,     \* op.conflicts
    errors,        \* op.errors
    exec,          \* op.exec
    fixConflicts,  \* op.fixConflicts
    includeDir,    \* op.includeDir
    onlyDir,       \* op.onlyDir
    includeHidden, \* op.includeHidden
    searchRegex,   \* op.searchRegex, as the set of names it matches
    replacement,   \* op.replacement, as what the substitution makes of each name
    excludeFilter, \* op.excludeFilter, as the set of names the filter matches
    undoFile,      \* op.undoFile
    outputFile,    \* op.outputFile
    sort,          \* op.sort
    reverseSort,   \* op.reverseSort
    files,         \* the journal and recovery files written, by name
    pc,            \* where run() is
    errs,          \* rename()'s local errs
    ret,           \* what run() returned
    phase,         \* which invocation this is: "first", "undo" or "again"
    fs0,           \* history: the filesystem before the first invocation
    fsRun,         \* history: the filesystem when this invocation began
    calls,         \* history: the stages this invocation has entered
    batch,         \* history: op.matches when rename() was called
    attempts,      \* history: rename()'s iterations of this invocation
    injected,      \* history: failures the environment has caused so far
    plan           \* history: op.matches after replace() of the first invocation

vars == <<fs, directories, paths, matches, conflicts, errors, exec, fixConflicts,
          includeDir, onlyDir, includeHidden, searchRegex, replacement,
          excludeFilter, undoFile, outputFile, sort, reverseSort, files, pc, errs,
          ret, phase, fs0, fsRun, calls, batch, attempts, injected, plan>>

config == <<directories, exec, fixConflicts, includeDir, onlyDir, includeHidden,
            searchRegex, replacement, excludeFilter, outputFile, sort, reverseSort>>

\* type Change
Change(baseDir, source, target, isDir) ==
    [BaseDir |-> baseDir, Source |-> source, Target |-> target, IsDir |-> isDir]

FullSource(ch) == Join(ch.BaseDir, ch.Source)

FullTarget(ch) == Join(ch.BaseDir, ch.Target)

\* The errors run() returns.
Nil == "nil"

ErrConflictDetected == "Conflict detected!"

ErrRecovery == "Some files could not be renamed. The successful operations have been written to"

ErrNoJournal == "The above files could not be renamed"

ErrFailed == "The renaming operation failed due to the above errors"

ErrWrite == "os.Create"

\* The error of handleVariables or replaceIndex, as replace() returns it.
ErrReplace == "replace"

Running == "-"

\* The name handleErrors gives the recovery file: the time is the invocation's.
RecoveryFile(ph) == ".f2_" \o ph \o ".json"

OutputFiles == {"", "out.json"}

\* ---------------------------------------------------------- traversal

\* os.ReadDir: the entries of a directory, sorted by name.
ReadDir(f, dir) == SelectSeq(DirNames, LAMBDA n : Join(dir, <<n>>) \in DOMAIN f)

RECURSIVE Flatten(_)
Flatten(ss) == IF ss = <<>> THEN <<>> ELSE Head(ss) \o Flatten(Tail(ss))

\* setPaths: one Change for each entry of each directory; order is the order in
\* which the range statement visits the keys of the map.
SetPaths(f, order) ==
    Flatten([k \in 1..Len(order) |->
        LET names == ReadDir(f, order[k])
        IN [j \in 1..Len(names) |->
              Change(order[k], <<names[j]>>, <<>>,
                     f[Join(order[k], <<names[j]>>)].kind = "dir")]])

\* The orders in which a map with these keys can be visited.
Orders(keys) ==
    {o \in [1..Cardinality(keys) -> keys] : {o[i] : i \in DOMAIN o} = keys}

\* ------------------------------------------------- matcher, transformer

\* isHidden: a name that starts with a dot.
HiddenNames == {".a", ".b"}

IsHidden(name) == name \in HiddenNames

\* findMatches' loop body: TRUE when the entry is appended to op.matches.
IsMatch(v) ==
    /\ ~(v.IsDir /\ ~includeDir)
    /\ ~(onlyDir /\ ~v.IsDir)
    /\ (includeHidden \/ ~IsHidden(Base(v.Source)))
    /\ Base(v.Source) \in searchRegex

FindMatches(ps) == SelectSeq(ps, IsMatch)

\* filterMatches
IsExcluded(m) == \E k \in 1..Len(m.Source) : m.Source[k] \in excludeFilter

FilterMatches(ms) == SelectSeq(ms, LAMBDA m : ~IsExcluded(m))

\* The start and the step a numbering token asks for (one and one by default).
IndexStart(tok) == IF tok = IndexTokenFrom5By2 THEN 5 ELSE 1

IndexStep(tok) == IF tok = IndexTokenFrom5By2 THEN 2 ELSE 1

\* replaceIndex: the numbering token becomes the number of position i
\* (from zero): the token's start plus i times its step.
ReplaceIndex(str, i) ==
    [k \in 1..Len(str) |->
        IF str[k] \in IndexTokens
        THEN ToString(IndexStart(str[k]) + i * IndexStep(str[k]))
        ELSE str[k]]

\* replaceIndex returns an error for a malformed numbering token.
IndexFails(str) == \E k \in 1..Len(str) : str[k] = BadIndexToken

\* indexRegex.Match
HasIndex(str) == \E k \in 1..Len(str) : str[k] \in IndexTokens \cup {BadIndexToken}

\* The entries for which the variable cannot be computed.
Unreadable == {"b"}

\* handleVariables: the variable token becomes the entry's value of it, and
\* it is an error when the entry has none.
HandleVariables(str, v) ==
    [k \in 1..Len(str) |-> IF str[k] = VarToken THEN "v" ELSE str[k]]

VariableFails(str, v) ==
    /\ \E k \in 1..Len(str) : str[k] = VarToken
    /\ Base(v.Source) \in Unreadable

\* replace's loop body for the entry at position i (from one).
ReplaceOne(v, i) ==
    LET fileName == Base(v.Source)
        dir      == Dir(v.Source)
        str      == HandleVariables(replacement[fileName], v)
        numbered == IF HasIndex(str) THEN ReplaceIndex(str, i - 1) ELSE str
    IN [v EXCEPT !.Target = Join(dir, numbered)]

\* replace's loop body returns an error for the entry.
ReplaceFails(v) ==
    LET str == replacement[Base(v.Source)]
    IN VariableFails(str, v) \/ (HasIndex(HandleVariables(str, v)) /\ IndexFails(str))

\* The position of the first entry replace() fails on; none: past the end.
FirstFailure(ms) ==
    LET failing == {i \in 1..Len(ms) : ReplaceFails(ms[i])}
    IN IF failing = {} THEN Len(ms) + 1
       ELSE CHOOSE i \in failing : \A j \in failing : i <= j

\* replace numbering an entry by its position in op.paths.
ReplaceCountingPaths(ms) ==
    LET stop == FirstFailure(ms)
    IN [i \in 1..Len(ms) |->
          IF i < stop
          THEN ReplaceOne(ms[i], CHOOSE k \in 1..Len(paths) : paths[k] = ms[i])
          ELSE ms[i]]

\* replace: op.matches when it returns; the entries before the first failure
\* have their targets.
Replace(ms) ==
    LET stop == FirstFailure(ms)
    IN [i \in 1..Len(ms) |-> IF i < stop THEN ReplaceOne(ms[i], i) ELSE ms[i]]

\* replace going on after an error of handleVariables or replaceIndex.
ReplaceErrorIgnored(ms) == Nil

\* replace: what it returns.
ReplaceError(ms) == IF FirstFailure(ms) <= Len(ms) THEN ErrReplace ELSE Nil

\* ---------------------------------------------------- pre-numbering sort

\* The sort keys of sortBy: the size and a time.
SortKeys == {"size", "mtime"}

\* os.Stat and times.Stat: the size and the modification time of an entry.
Stat(ch) ==
    LET name == Base(ch.Source)
    IN IF name = ".a" THEN [size |-> 1, mtime |-> 2]
       ELSE IF name = "a" THEN [size |-> 1, mtime |-> 1]
       ELSE [size |-> 2, mtime |-> 1]

\* The less function of sortBySize and of sortByTime.
StatLess(a, b) ==
    IF reverseSort THEN Stat(a)[sort] < Stat(b)[sort] ELSE Stat(a)[sort] > Stat(b)[sort]

RECURSIVE StatInsertLeft(_, _)
StatInsertLeft(s, j) ==
    IF j > 1 /\ StatLess(s[j], s[j - 1])
    THEN StatInsertLeft([s EXCEPT ![j] = s[j - 1], ![j - 1] = s[j]], j - 1)
    ELSE s

RECURSIVE StatInsertionSort(_, _)
StatInsertionSort(s, i) ==
    IF i > Len(s) THEN s ELSE StatInsertionSort(StatInsertLeft(s, i), i + 1)

\* sortBy: sort.SliceStable by the key; any other value of op.sort sorts nothing.
SortBy(ms) == IF sort \in SortKeys THEN StatInsertionSort(ms, 2) ELSE ms

\* -------------------------------------------------------------- validator

\* The candidates other than the one at position i.
Others(ms, i) == {ms[j] : j \in (1..Len(ms)) \ {i}}

\* The target is on disk and no other candidate moves it away.
TargetExists(ms, i, f) ==
    /\ FullTarget(ms[i]) \in DOMAIN f
    /\ \A o \in Others(ms, i) : FullSource(o) # FullTarget(ms[i])

\* Another candidate has the same target.
TargetDuplicated(ms, i) ==
    \E j \in (1..Len(ms)) \ {i} : FullTarget(ms[j]) = FullTarget(ms[i])

\* The conflicts of a batch, by kind.
DetectConflicts(ms, f) ==
    {[kind |-> "fileExists", entry |-> ms[i]] : i \in {k \in 1..Len(ms) : TargetExists(ms, k, f)}}
    \cup
    {[kind |-> "duplicate", entry |-> ms[i]] : i \in {k \in 1..Len(ms) : TargetDuplicated(ms, k)}}

\* A candidate whose name does not change is not executed.
DropUnchanged(ms) == SelectSeq(ms, LAMBDA m : m.Target # m.Source)

Suffixed(rel, n) == [rel EXCEPT ![Len(rel)] = rel[Len(rel)] \o "(" \o ToString(n) \o ")"]

\* Auto-fix: a target that is on disk or taken by an earlier candidate gets
\* the first numbered suffix that is free.
RECURSIVE FreeTarget(_, _, _, _)
FreeTarget(ch, taken, f, n) ==
    LET t == IF n = 1 THEN ch.Target ELSE Suffixed(ch.Target, n)
    IN IF Join(ch.BaseDir, t) \in taken \/ Join(ch.BaseDir, t) \in DOMAIN f
       THEN FreeTarget(ch, taken, f, n + 1)
       ELSE t

RECURSIVE FixFrom(_, _, _)
FixFrom(ms, i, f) ==
    IF i > Len(ms) THEN ms
    ELSE LET taken == {FullTarget(ms[j]) : j \in 1..(i - 1)}
             clash == FullTarget(ms[i]) \in taken \/ TargetExists(ms, i, f)
             fixed == IF clash
                      THEN [ms EXCEPT ![i].Target = FreeTarget(ms[i], taken, f, 2)]
                      ELSE ms
         IN FixFrom(fixed, i + 1, f)

\* validate: what it leaves in op.matches and in op.conflicts.
ValidatedMatches(ms, f) ==
    LET kept == DropUnchanged(ms)
    IN IF fixConflicts /\ DetectConflicts(kept, f) # {} THEN FixFrom(kept, 1, f) ELSE kept

ValidatedConflicts(ms, f) == DetectConflicts(DropUnchanged(ms), f)

\* ------------------------------------------------------------ ordering

\* sortMatches' less function.
Less(undo, a, b) ==
    IF undo THEN StrLen(a.BaseDir) < StrLen(b.BaseDir)
    ELSE IF ~a.IsDir THEN TRUE
    ELSE StrLen(a.BaseDir) > StrLen(b.BaseDir)

Swap(s, i, j) == [s EXCEPT ![i] = s[j], ![j] = s[i]]

\* sort.SliceStable on a slice of at most twenty elements is one insertion
\* sort: each element moves left while it is less than the one before it.
RECURSIVE InsertLeft(_, _, _)
InsertLeft(s, j, undo) ==
    IF j > 1 /\ Less(undo, s[j], s[j - 1])
    THEN InsertLeft(Swap(s, j, j - 1), j - 1, undo)
    ELSE s

RECURSIVE InsertionSort(_, _, _)
InsertionSort(s, i, undo) ==
    IF i > Len(s) THEN s ELSE InsertionSort(InsertLeft(s, i, undo), i + 1, undo)

SortMatches(ms, undo) == InsertionSort(ms, 2, undo)

\* ------------------------------------------------------------ executor

\* What the environment can do to one iteration of rename(): nothing, refuse
\* the directory creation, or refuse the rename (permission denied).
Injections(ch) == IF HasSeparator(ch.Target) THEN {"none", "mkdir", "rename"} ELSE {"none", "rename"}

\* rename() without the continue after a failed directory creation.
RenameOneNoContinue(f, ch, inj) ==
    LET dir == Join(ch.BaseDir, Dir(ch.Target))
        mk  == IF ~HasSeparator(ch.Target) THEN [ok |-> TRUE, fs |-> f]
               ELSE IF inj = "mkdir" THEN [ok |-> FALSE, fs |-> f]
               ELSE MkdirAll(f, dir)
        rn  == IF inj = "rename" THEN [ok |-> FALSE, fs |-> mk.fs]
               ELSE OsRename(mk.fs, FullSource(ch), FullTarget(ch))
    IN [fs |-> rn.fs, entry |-> ch,
        mkdir |-> IF ~HasSeparator(ch.Target) THEN "none"
                  ELSE IF mk.ok THEN "ok" ELSE "failed",
        rename |-> IF rn.ok THEN "ok" ELSE "failed",
        failed |-> ~mk.ok \/ ~rn.ok]

\* rename() with the error of a failed directory creation left unrecorded.
RenameOneDropsMkdirError(f, ch, inj) ==
    LET dir == Join(ch.BaseDir, Dir(ch.Target))
        mk  == IF ~HasSeparator(ch.Target) THEN [ok |-> TRUE, fs |-> f]
               ELSE IF inj = "mkdir" THEN [ok |-> FALSE, fs |-> f]
               ELSE MkdirAll(f, dir)
        rn  == IF inj = "rename" THEN [ok |-> FALSE, fs |-> mk.fs]
               ELSE OsRename(mk.fs, FullSource(ch), FullTarget(ch))
    IN IF ~mk.ok
       THEN [fs |-> f, entry |-> ch, mkdir |-> "failed", rename |-> "none", failed |-> FALSE]
       ELSE [fs |-> rn.fs, entry |-> ch,
             mkdir |-> IF HasSeparator(ch.Target) THEN "ok" ELSE "none",
             rename |-> IF rn.ok THEN "ok" ELSE "failed",
             failed |-> ~rn.ok]

\* One iteration of rename()'s loop on the filesystem f: the filesystem it
\* leaves, whether the directory creation and the rename were called and how
\* they ended, and whether an error is appended to errs.
RenameOne(f, ch, inj) ==
    LET dir == Join(ch.BaseDir, Dir(ch.Target))
        mk  == IF ~HasSeparator(ch.Target) THEN [ok |-> TRUE, fs |-> f]
               ELSE IF inj = "mkdir" THEN [ok |-> FALSE, fs |-> f]
               ELSE MkdirAll(f, dir)
        rn  == IF inj = "rename" THEN [ok |-> FALSE, fs |-> mk.fs]
               ELSE OsRename(mk.fs, FullSource(ch), FullTarget(ch))
    IN IF ~mk.ok
       THEN [fs |-> f, entry |-> ch, mkdir |-> "failed", rename |-> "none", failed |-> TRUE]
       ELSE [fs |-> rn.fs, entry |-> ch,
             mkdir |-> IF HasSeparator(ch.Target) THEN "ok" ELSE "none",
             rename |-> IF rn.ok THEN "ok" ELSE "failed",
             failed |-> ~rn.ok]

\* type renameError
RenameError(ch) == [entry |-> ch]

\* handleErrors' first loop: every match whose Target is the Target of an
\* error entry is removed.
RemoveErrors(ms, es) ==
    SelectSeq(ms, LAMBDA m : \A k \in 1..Len(es) : es[k].entry.Target # m.Target)

\* handleErrors with the error of writeToFile ignored.
HandleErrorsResultIgnoresWrite(left, written) ==
    IF Len(left) > 0 THEN ErrRecovery ELSE ErrFailed

\* handleErrors' result, given whether writing the recovery file worked.
HandleErrorsResult(left, written) ==
    IF written /\ Len(left) > 0 THEN ErrRecovery
    ELSE IF ~written /\ Len(left) > 0 THEN ErrNoJournal
    ELSE ErrFailed

\* writeToFile that loses the first operation.
WriteToFileTail(fl, name, ms) ==
    [n \in DOMAIN fl \cup {name} |-> IF n = name THEN SubSeq(ms, 2, Len(ms)) ELSE fl[n]]

\* writeToFile: the file holds op.matches.
WriteToFile(fl, name, ms) ==
    [n \in DOMAIN fl \cup {name} |-> IF n = name THEN ms ELSE fl[n]]

\* What a call of writeToFile adds to the record of calls.
WriteCalls(called, written) ==
    IF ~called THEN <<>>
    ELSE IF written THEN <<"writeToFile", "written">>
    ELSE <<"writeToFile", "write failed">>

\* The gate closed on previews only.
BlockedInPreview(cs) == cs # {} /\ ~fixConflicts /\ ~exec

\* apply's gate after validate.
Blocked(cs) == cs # {} /\ ~fixConflicts

\* apply renaming whenever a journal is asked for.
ExecOrOutput == exec \/ outputFile # ""

\* apply renames in execute mode only.
ExecMode == exec

\* apply sorts the matches when directories are included or in an undo.
NeedsSort == includeDir \/ undoFile # ""

\* undo's loop swapping in place: Target is read after Source was overwritten.
ReversedInPlace(ops) ==
    [i \in 1..Len(ops) |-> [ops[i] EXCEPT !.Source = ops[i].Target]]

\* undo's loop: Source and Target change places.
Reversed(ops) ==
    [i \in 1..Len(ops) |-> [ops[i] EXCEPT !.Source = ops[i].Target, !.Target = ops[i].Source]]

\* ---------------------------------------------------- initial states

RECURSIVE PathsUpTo(_)
PathsUpTo(n) ==
    IF n = 0 THEN {}
    ELSE LET shorter == PathsUpTo(n - 1)
         IN {<<m>> : m \in Names} \cup shorter \cup {Append(p, m) : p \in shorter, m \in Names}

\* The sets of paths a filesystem can consist of: with a path, its directory.
TreeShapes ==
    {S \in SUBSET PathsUpTo(MaxEntries) :
        /\ Cardinality(S) <= MaxEntries
        /\ \A p \in S : Len(p) > 1 => Dir(p) \in S}

\* The filesystems: what holds an entry is a directory.
Trees ==
    UNION {{[p \in S |-> [kind |-> k[p], id |-> p]] :
              k \in {kk \in [S -> {"file", "dir"}] :
                        \A p \in S : Len(p) > 1 => kk[Dir(p)] = "dir"}} :
           S \in TreeShapes}

DirsOf(f) == {p \in DOMAIN f : f[p].kind = "dir"}

\* The replacements: what the substitution makes of each name the search
\* pattern matches.
Rules(found) == [found -> RuleStrs]

\* newOperation for a renaming: the working directory and any of the
\* directories beside it are listed, and setPaths fills op.paths. A search
\* pattern is told from another by the names of the filesystem it matches.
Init ==
    /\ fs \in Trees
    /\ fs0 = fs
    /\ fsRun = fs
    /\ \E ds \in SUBSET DirsOf(fs) : directories = {<<>>} \cup ds
    /\ \E order \in Orders(directories) : paths = SetPaths(fs, order)
    /\ matches = <<>>
    /\ conflicts = {}
    /\ errors = <<>>
    /\ exec \in BOOLEAN
    /\ fixConflicts \in BOOLEAN
    /\ includeDir \in BOOLEAN
    /\ onlyDir = FALSE
    /\ includeHidden = FALSE
    /\ searchRegex \in SUBSET {Base(p) : p \in DOMAIN fs}
    /\ replacement \in Rules(searchRegex)
    /\ excludeFilter = {}
    /\ undoFile = ""
    /\ outputFile \in OutputFiles
    /\ sort = ""
    /\ reverseSort = FALSE
    /\ files = <<>>
    /\ pc = "run"
    /\ errs = <<>>
    /\ ret = Running
    /\ phase = "first"
    /\ calls = <<>>
    /\ batch = <<>>
    /\ attempts = <<>>
    /\ injected = 0
    /\ plan = <<>>

\* ------------------------------------------------------------- actions

Return(r) == pc' = "done" /\ ret' = r

\* run(), up to replace: findMatches, with an exclusion filter filterMatches,
\* and with a sort key sortBy.
RunFindMatches ==
    /\ pc = "run"
    /\ undoFile = ""
    /\ LET found == IF excludeFilter # {} THEN FilterMatches(FindMatches(paths))
                    ELSE FindMatches(paths)
       IN matches' = IF sort # "" THEN SortBy(found) ELSE found
    /\ calls' = Append(calls, "findMatches")
    /\ pc' = "replace"
    /\ UNCHANGED <<fs, paths, conflicts, errors, config, undoFile, files, errs, ret,
                   phase, fs0, fsRun, batch, attempts, injected, plan>>

\* run(): replace, then on to apply.
RunReplace ==
    /\ pc = "replace"
    /\ matches' = Replace(matches)
    /\ calls' = Append(calls, "replace")
    /\ plan' = IF phase = "first" THEN matches' ELSE plan
    /\ IF ReplaceError(matches) # Nil
       THEN Return(ReplaceError(matches))
       ELSE pc' = "apply" /\ ret' = ret
    /\ UNCHANGED <<fs, paths, conflicts, errors, config, undoFile, files, errs,
                   phase, fs0, fsRun, batch, attempts, injected>>

\* run() with an undo file: undo() reads the journal, swaps and goes to apply.
RunUndo ==
    /\ pc = "run"
    /\ undoFile # ""
    /\ matches' = IF ~exec /\ sort # "" THEN SortBy(Reversed(files[undoFile]))
                  ELSE Reversed(files[undoFile])
    /\ calls' = Append(calls, "undo")
    /\ pc' = "apply"
    /\ UNCHANGED <<fs, paths, conflicts, errors, config, undoFile, files, errs, ret,
                   phase, fs0, fsRun, batch, attempts, injected, plan>>

\* apply(), up to the call of rename().
Apply ==
    /\ pc = "apply"
    /\ IF Len(matches) = 0
       THEN /\ Return(Nil)
            /\ UNCHANGED <<matches, conflicts, calls, batch>>
       ELSE LET ms == ValidatedMatches(matches, fs)
                cs == ValidatedConflicts(matches, fs)
            IN /\ conflicts' = cs
               /\ IF Blocked(cs)
                  THEN /\ Return(ErrConflictDetected)
                       /\ matches' = ms
                       /\ calls' = Append(calls, "validate")
                       /\ batch' = batch
                  ELSE IF ExecMode
                  THEN /\ matches' = IF NeedsSort THEN SortMatches(ms, undoFile # "") ELSE ms
                       /\ calls' = calls \o <<"validate", "rename">>
                       /\ batch' = matches'
                       /\ pc' = "rename"
                       /\ ret' = ret
                  ELSE /\ Return(Nil)
                       /\ matches' = ms
                       /\ calls' = Append(calls, "validate")
                       /\ batch' = batch
    /\ UNCHANGED <<fs, paths, errors, config, undoFile, files, errs,
                   phase, fs0, fsRun, attempts, injected, plan>>

\* One iteration of rename()'s loop.
RenameStep ==
    /\ pc = "rename"
    /\ Len(attempts) < Len(matches)
    /\ LET ch == matches[Len(attempts) + 1]
       IN \E inj \in Injections(ch) :
            LET r == RenameOne(fs, ch, inj)
            IN /\ fs' = r.fs
               /\ errs' = IF r.failed THEN Append(errs, RenameError(ch)) ELSE errs
               /\ attempts' = Append(attempts, [entry |-> r.entry, mkdir |-> r.mkdir,
                                                rename |-> r.rename, inj |-> inj,
                                                existed |-> FullTarget(ch) \in DOMAIN fs,
                                                had |-> FullSource(ch) \in DOMAIN fs,
                                                ready |-> IsDirAt(fs, Dir(FullTarget(ch)))])
               /\ injected' = IF inj = "none" THEN injected ELSE injected + 1
    /\ UNCHANGED <<paths, matches, conflicts, errors, config, undoFile, files, pc, ret,
                   phase, fs0, fsRun, calls, batch, plan>>

\* The end of rename() and the rest of apply(): handleErrors when there are
\* errors, the journal when an output file is set. Writing a file can fail.
ApplyReturn ==
    /\ pc = "rename"
    /\ Len(attempts) = Len(matches)
    /\ errors' = errs
    /\ IF Len(errs) > 0
       THEN LET left == RemoveErrors(matches, errs)
            IN /\ matches' = left
               /\ \E written \in (IF Len(left) > 0 THEN BOOLEAN ELSE {FALSE}) :
                    /\ files' = IF written THEN WriteToFile(files, RecoveryFile(phase), left)
                                ELSE files
                    /\ calls' = calls \o <<"handleErrors">> \o WriteCalls(Len(left) > 0, written)
                    /\ Return(HandleErrorsResult(left, written))
       ELSE /\ matches' = matches
            /\ \E written \in (IF outputFile # "" THEN BOOLEAN ELSE {FALSE}) :
                 /\ files' = IF written THEN WriteToFile(files, outputFile, matches)
                             ELSE files
                 /\ calls' = calls \o WriteCalls(outputFile # "", written)
                 /\ Return(IF outputFile # "" /\ ~written THEN ErrWrite ELSE Nil)
    /\ UNCHANGED <<fs, paths, conflicts, config, undoFile, errs,
                   phase, fs0, fsRun, batch, attempts, injected, plan>>

\* The next invocation is an undo of a journal the first one wrote.
InvokeUndo ==
    /\ pc = "done"
    /\ phase = "first"
    /\ \E name \in DOMAIN files : undoFile' = name
    /\ exec' \in BOOLEAN
    /\ phase' = "undo"
    /\ paths' = <<>>
    /\ matches' = <<>>
    /\ conflicts' = {}
    /\ errors' = <<>>
    /\ errs' = <<>>
    /\ outputFile' = ""
    /\ includeDir' = FALSE
    /\ pc' = "run"
    /\ ret' = Running
    /\ fsRun' = fs
    /\ calls' = <<>>
    /\ batch' = <<>>
    /\ attempts' = <<>>
    /\ UNCHANGED <<fs, directories, fixConflicts, onlyDir, includeHidden, searchRegex,
                   replacement, excludeFilter, sort, reverseSort, files, fs0, injected,
                   plan>>

\* The next invocation is the first one again, when that was a preview.
InvokeAgain ==
    /\ pc = "done"
    /\ phase = "first"
    /\ ~exec
    /\ phase' = "again"
    /\ \E order \in Orders(directories) : paths' = SetPaths(fs, order)
    /\ matches' = <<>>
    /\ conflicts' = {}
    /\ errors' = <<>>
    /\ errs' = <<>>
    /\ pc' = "run"
    /\ ret' = Running
    /\ fsRun' = fs
    /\ calls' = <<>>
    /\ batch' = <<>>
    /\ attempts' = <<>>
    /\ UNCHANGED <<fs, config, undoFile, files, fs0, injected, plan>>

Next ==
    \/ RunFindMatches
    \/ RunReplace
    \/ RunUndo
    \/ Apply
    \/ RenameStep
    \/ ApplyReturn
    \/ InvokeUndo
    \/ InvokeAgain

Spec == Init /\ [][Next]_vars

\* ------------------------------------- one run over a single directory

\* setOptions that leaves op.includeDir as the flag gave it.
SetIncludeDirAsGiven(flag, only) == flag

\* setOptions: directory-only implies directory-inclusion.
SetIncludeDir(flag, only) == flag \/ only

\* The filesystems of one directory: some of the names, as files or directories.
FlatTrees ==
    UNION {[{<<n>> : n \in ns} -> {"file", "dir"}] :
           ns \in {x \in SUBSET {DirNames[i] : i \in 1..Len(DirNames)} :
                      Cardinality(x) <= MaxEntries + 1}}

\* The replacement templates: a plain name, the numbering tokens, a variable
\* token and a malformed numbering token.
Templates ==
    {<<"b">>, <<IndexToken>>, <<IndexTokenFrom5By2>>, <<VarToken>>, <<BadIndexToken>>}

\* newOperation for a renaming of the working directory's entries in execute
\* mode, with any of the matcher's options, an exclusion filter and a sort.
InitRun ==
    /\ \E kinds \in FlatTrees : fs = [q \in DOMAIN kinds |-> [kind |-> kinds[q], id |-> q]]
    /\ fs0 = fs
    /\ fsRun = fs
    /\ directories = {<<>>}
    /\ paths = SetPaths(fs, <<<<>>>>)
    /\ matches = <<>>
    /\ conflicts = {}
    /\ errors = <<>>
    /\ exec = TRUE
    /\ fixConflicts = FALSE
    /\ onlyDir \in BOOLEAN
    /\ \E flag \in BOOLEAN : includeDir = SetIncludeDir(flag, onlyDir)
    /\ includeHidden \in BOOLEAN
    /\ searchRegex \in SUBSET {DirNames[i] : i \in 1..Len(DirNames)}
    /\ \E t \in Templates : replacement = [n \in searchRegex |-> t]
    /\ excludeFilter \in {{}, {"a"}}
    /\ sort \in {""} \cup SortKeys
    /\ reverseSort \in (IF sort = "" THEN {FALSE} ELSE BOOLEAN)
    /\ undoFile = ""
    /\ outputFile = "out.json"
    /\ files = <<>>
    /\ pc = "run"
    /\ errs = <<>>
    /\ ret = Running
    /\ phase = "first"
    /\ calls = <<>>
    /\ batch = <<>>
    /\ attempts = <<>>
    /\ injected = 0
    /\ plan = <<>>

NextRun ==
    \/ RunFindMatches
    \/ RunReplace
    \/ Apply
    \/ RenameStep
    \/ ApplyReturn

SpecRun == InitRun /\ [][NextRun]_vars

\* ------------------------------------------------------ sortMatches alone

\* The base directories of the candidates: ".", "a" and "a/a".
BaseDirs == {<<>>, <<"a">>, <<"a", "a">>}

\* The candidates a batch is made of.
Pool ==
    {Change(d, <<n>>, <<n \o "2">>, k) : d \in BaseDirs, n \in Names, k \in BOOLEAN}

RECURSIVE SeqsUpTo(_, _)
SeqsUpTo(S, n) ==
    IF n = 0 THEN {<<>>}
    ELSE LET shorter == SeqsUpTo(S, n - 1)
         IN shorter \cup {Append(q, x) : q \in {r \in shorter : Len(r) = n - 1}, x \in S}

\* The batches setPaths and findMatches can leave: no entry twice, the
\* entries of a base directory together and in the directory's order, and
\* what lies on the way to a base directory is a directory.
Batches ==
    {b \in SeqsUpTo(Pool, MaxBatch) :
        /\ \A i \in 1..Len(b) :
              (\E d \in BaseDirs : IsPrefix(FullSource(b[i]), d)) => b[i].IsDir
        /\ \A i, j \in 1..Len(b) :
              i < j => /\ FullSource(b[i]) # FullSource(b[j])
                       /\ b[i].BaseDir = b[j].BaseDir =>
                             /\ \A k \in i..j : b[k].BaseDir = b[i].BaseDir
                             /\ b[i].Source = <<"a">>}

\* apply is about to sort a batch, in a run with directories or in an undo.
InitSort ==
    /\ matches \in Batches
    /\ plan = matches
    /\ undoFile \in OutputFiles
    /\ includeDir = (undoFile = "")
    /\ pc = "sort"
    /\ fs = <<>>
    /\ fs0 = fs
    /\ fsRun = fs
    /\ directories = BaseDirs
    /\ paths = <<>>
    /\ conflicts = {}
    /\ errors = <<>>
    /\ exec = TRUE
    /\ fixConflicts = FALSE
    /\ onlyDir = FALSE
    /\ includeHidden = FALSE
    /\ searchRegex = Names
    /\ replacement = [n \in Names |-> <<n \o "2">>]
    /\ excludeFilter = {}
    /\ outputFile = ""
    /\ sort = ""
    /\ reverseSort = FALSE
    /\ files = <<>>
    /\ errs = <<>>
    /\ ret = Running
    /\ phase = IF undoFile = "" THEN "first" ELSE "undo"
    /\ calls = <<>>
    /\ batch = <<>>
    /\ attempts = <<>>
    /\ injected = 0

\* apply's call of sortMatches.
SortStep ==
    /\ pc = "sort"
    /\ NeedsSort
    /\ matches' = SortMatches(matches, undoFile # "")
    /\ batch' = matches'
    /\ calls' = Append(calls, "sortMatches")
    /\ pc' = "sorted"
    /\ UNCHANGED <<fs, paths, conflicts, errors, config, undoFile, files, errs, ret,
                   phase, fs0, fsRun, attempts, injected, plan>>

NextSort == SortStep

SpecSort == InitSort /\ [][NextSort]_vars

\* -------------------------------------------------------- properties

Called(stage) == \E k \in 1..Len(calls) : calls[k] = stage

Entries(seq) == {seq[k] : k \in 1..Len(seq)}

\* The entries rename() has renamed, and those it has failed on, in order.
Succeeded == SelectSeq(attempts, LAMBDA a : a.rename = "ok")

Failed == SelectSeq(attempts, LAMBDA a : a.rename # "ok")

EntriesOf(as) == [k \in 1..Len(as) |-> as[k].entry]

\* An execute-mode undo of the journal of a first invocation without errors
\* has returned nil; the environment has refused nothing in either invocation
\* and no conflict was fixed.
UndoDone ==
    /\ phase = "undo"
    /\ exec
    /\ pc = "done"
    /\ ret = Nil
    /\ injected = 0
    /\ ~fixConflicts
    /\ undoFile \in OutputFiles

\* C1: after a batch has been applied and its journal has been undone, every
\* entry of the initial filesystem is at its original path with its original
\* content: the renamed ones are back, the others were never lost.
C1_RoundTrip ==
    UndoDone => \A p \in DOMAIN fs0 : p \in DOMAIN fs /\ fs[p] = fs0[p]

\* An execute-mode run with failures and successes has returned.
PartialFailure ==
    pc = "done" /\ Called("handleErrors") /\ Len(Succeeded) > 0

\* C2: after an execute-mode apply with some failed and some succeeded renames,
\* op.matches holds exactly the candidates whose rename succeeded.
C2_SuccessfulSetExact ==
    PartialFailure => matches = EntriesOf(Succeeded)

\* C3: rename() attempts the candidates of op.matches once each, in slice
\* order, whatever failed before; errs holds one entry for each candidate
\* whose directory creation or rename failed and none for the others, and
\* op.errors holds the same after rename() has returned.
C3_FailureIsolation ==
    /\ pc = "rename" => matches = batch
    /\ Len(attempts) <= Len(batch)
    /\ \A k \in 1..Len(attempts) :
         /\ attempts[k].entry = batch[k]
         /\ attempts[k].mkdir = "failed" => attempts[k].rename = "none"
    /\ errs = [k \in 1..Len(Failed) |-> RenameError(Failed[k].entry)]
    /\ (pc = "done" /\ Called("rename")) =>
         /\ Len(attempts) = Len(batch)
         /\ errors = errs

\* A failure at the first candidate, and the second one renamed after it.
C3_Witness ==
    /\ pc = "done"
    /\ Len(attempts) >= 2
    /\ attempts[1].rename # "ok"
    /\ attempts[2].rename = "ok"
    /\ Len(errors) = 1

\* C4: with a conflict recorded and fixConflicts false, apply() returns the
\* conflict error and has renamed nothing, created no directory and written
\* no journal, in execute mode as in preview mode.
C4_ConflictGate ==
    (conflicts # {} /\ ~fixConflicts) =>
        /\ pc = "done"
        /\ ret = ErrConflictDetected
        /\ fs = fsRun
        /\ attempts = <<>>
        /\ ~Called("rename")
        /\ ~Called("writeToFile")
        /\ (phase = "first" => files = <<>>)

C4_Witness ==
    /\ conflicts # {}
    /\ ~fixConflicts
    /\ exec
    /\ outputFile # ""
    /\ ret = ErrConflictDetected

\* X lies in the directory candidate d, by d's name before its rename.
InsideSource(x, d) == d.IsDir /\ IsPrefix(FullSource(d), x.BaseDir)

\* X lies in the directory candidate d, by the name d is renamed to.
InsideTarget(x, d) == d.IsDir /\ IsPrefix(FullTarget(d), x.BaseDir)

Position(e) == CHOOSE k \in 1..Len(batch) : batch[k] = e

\* C5: in execute mode a candidate inside a directory candidate is renamed
\* before the directory in a normal run, and in an undo run the directory is
\* restored before any candidate whose BaseDir lies inside the restored
\* directory.
C5_SafeOrder ==
    Called("rename") =>
        \A x \in Entries(batch), d \in Entries(batch) :
            /\ (undoFile = "" /\ InsideSource(x, d)) => Position(x) < Position(d)
            /\ (undoFile # "" /\ InsideTarget(x, d)) => Position(d) < Position(x)

\* C6: with exec false, run() renames nothing, creates no directory and
\* writes no file, on the normal path and on the undo path, and leaves the
\* filesystem as it found it.
C6_PreviewNoMutation ==
    ~exec =>
        /\ fs = fsRun
        /\ attempts = <<>>
        /\ ~Called("rename")
        /\ ~Called("writeToFile")
        /\ (phase # "undo" => files = <<>>)

\* A preview of an undo, and a preview that ended on the conflict gate or not.
C6_Witness ==
    /\ ~exec
    /\ phase = "undo"
    /\ pc = "done"
    /\ Len(matches) >= 2
    /\ ret = Nil

\* C7: a second preview with the same configuration over the same filesystem
\* proposes the same target for every candidate as the first.
C7_PreviewDeterministic ==
    (phase = "again" /\ pc = "apply") => Entries(matches) = Entries(plan)

SwapEntry(e) ==
    [BaseDir |-> e.BaseDir, Source |-> e.Target, Target |-> e.Source, IsDir |-> e.IsDir]

\* The sequence ms is the journal ops with Source and Target swapped.
IsSwapOf(ms, ops) ==
    /\ Len(ms) = Len(ops)
    /\ \A k \in 1..Len(ops) : ms[k] = SwapEntry(ops[k])

\* The sequence ms holds the swapped journal entries, in some order.
IsReorderedSwapOf(ms, ops) ==
    /\ Len(ms) = Len(ops)
    /\ Entries(ms) = {SwapEntry(ops[k]) : k \in 1..Len(ops)}

\* C8 as stated: an undo run hands the executor the journal's operations
\* with Source and Target swapped and reaches it without findMatches,
\* replace or validate, so that no conflict can block it.
C8_UndoSkipsValidator ==
    phase = "undo" =>
        /\ ~Called("findMatches")
        /\ ~Called("replace")
        /\ ~Called("validate")
        /\ ret # ErrConflictDetected
        /\ pc = "apply" => IsSwapOf(matches, files[undoFile])
        /\ Called("rename") => IsReorderedSwapOf(batch, files[undoFile])

\* C8 as amended: undo() sets op.matches to the journal's operations with
\* Source and Target swapped without findMatches or replace, and then goes
\* through apply(), which calls validate(): a conflict on the reversed set
\* blocks the undo unless fixConflicts is set; without a conflict the
\* executor gets the swapped operations, reordered by sortMatches.
C8_UndoThroughApply ==
    phase = "undo" =>
        /\ ~Called("findMatches")
        /\ ~Called("replace")
        /\ pc = "apply" => IsSwapOf(matches, files[undoFile])
        /\ Called("rename") => Called("validate")
        /\ (Called("rename") /\ conflicts = {}) => IsReorderedSwapOf(batch, files[undoFile])
        /\ (conflicts # {} /\ ~fixConflicts) =>
              ret = ErrConflictDetected /\ ~Called("rename") /\ fs = fsRun

\* An undo in execute mode that a conflict on the reversed set has blocked.
C8_Witness ==
    /\ phase = "undo"
    /\ exec
    /\ Len(matches) >= 2
    /\ ret = ErrConflictDetected

FullSuccess == pc = "done" /\ phase = "first" /\ exec /\ ret = Nil /\ errors = <<>>

JournalIsBatch ==
    /\ outputFile \in DOMAIN files <=> outputFile # ""
    /\ outputFile # "" => files[outputFile] = EntriesOf(attempts)

\* C10 as stated: no file is written while renames are still to be attempted,
\* and a fully successful execute-mode run writes a journal exactly when
\* outputFile is set, holding the whole batch in the order of execution.
C10_JournalWhenOutputFile ==
    /\ pc = "rename" => ~Called("writeToFile") /\ (phase = "first" => files = <<>>)
    /\ FullSuccess => JournalIsBatch

\* C10 as amended: the same, for the runs in which at least one candidate
\* matched, so that apply() went on to rename(); a run that matched nothing
\* returns nil without writing a journal.
C10_JournalWhenMatched ==
    /\ pc = "rename" => ~Called("writeToFile") /\ (phase = "first" => files = <<>>)
    /\ (FullSuccess /\ Called("rename")) => JournalIsBatch
    /\ (FullSuccess /\ ~Called("rename")) => files = <<>>

\* A journal of two renames, written after both.
C10_Witness ==
    /\ FullSuccess
    /\ outputFile # ""
    /\ Len(attempts) >= 2
    /\ files[outputFile] = batch

\* The position of the entry e in the sequence seq.
PositionIn(seq, e) == CHOOSE k \in 1..Len(seq) : seq[k] = e

\* The four conditions of the matcher on a path entry.
Passes(v) ==
    /\ ~v.IsDir \/ includeDir
    /\ v.IsDir \/ ~onlyDir
    /\ ~IsHidden(Base(v.Source)) \/ includeHidden
    /\ Base(v.Source) \in searchRegex

\* findMatches has returned, and neither filterMatches nor sortBy has run.
AfterFindMatches == pc = "replace" /\ excludeFilter = {} /\ sort = ""

\* C11: after findMatches(), op.matches is a subsequence of op.paths in the
\* same relative order, holding a path entry if and only if it passes the
\* directory, directory-only, hidden and find conditions; with onlyDir the
\* matcher returns the directories that pass the hidden and find conditions.
C11_MatcherFiltering ==
    AfterFindMatches =>
        /\ \A v \in Entries(paths) : v \in Entries(matches) <=> Passes(v)
        /\ Entries(matches) \subseteq Entries(paths)
        /\ Cardinality(Entries(matches)) = Len(matches)
        /\ \A i, j \in 1..Len(matches) :
              i < j => PositionIn(paths, matches[i]) < PositionIn(paths, matches[j])
        /\ onlyDir =>
              Entries(matches) =
                  {v \in Entries(paths) :
                      /\ v.IsDir
                      /\ ~IsHidden(Base(v.Source)) \/ includeHidden
                      /\ Base(v.Source) \in searchRegex}

\* In directory-only mode a directory was matched while a file and a hidden
\* entry were skipped.
C11_Witness ==
    /\ AfterFindMatches
    /\ onlyDir
    /\ ~includeHidden
    /\ Len(matches) = 1
    /\ Len(paths) >= 2
    /\ \E v \in Entries(paths) : ~v.IsDir /\ Base(v.Source) \in searchRegex

\* replace() has returned without an error.
AfterReplace == pc = "apply" /\ Called("replace")

\* The numbering token of the batch's template, if it has one.
TokenOf(m) == replacement[Base(m.Source)][1]

Numbered(m) == TokenOf(m) \in IndexTokens

\* The path entries that pass the matcher and the exclusion filter.
Candidates == {v \in Entries(paths) : Passes(v) /\ Base(v.Source) \notin excludeFilter}

\* The value of the sort key of the entry named n.
KeyOf(m) ==
    IF sort = "size" THEN (IF Base(m.Source) = "b" THEN 2 ELSE 1)
    ELSE IF sort = "mtime" THEN (IF Base(m.Source) = ".a" THEN 2 ELSE 1)
    ELSE 0

\* C12: the k-th candidate (from zero) of the batch that matching, exclusion
\* filtering and the pre-numbering sort have left receives the token's start
\* plus k times its step: the batch is the candidates in the order of the
\* sort, the numbers are pairwise distinct and skipped entries leave no gap.
C12_Numbering ==
    AfterReplace =>
        /\ {[m EXCEPT !.Target = <<>>] : m \in Entries(matches)} = Candidates
        /\ Len(matches) = Cardinality(Candidates)
        /\ \A i, j \in 1..Len(matches) :
              i < j => IF reverseSort THEN KeyOf(matches[i]) <= KeyOf(matches[j])
                       ELSE KeyOf(matches[i]) >= KeyOf(matches[j])
        /\ \A i \in 1..Len(matches) :
              Numbered(matches[i]) =>
                  matches[i].Target =
                      <<ToString(IndexStart(TokenOf(matches[i]))
                                 + (i - 1) * IndexStep(TokenOf(matches[i])))>>
        /\ \A i, j \in 1..Len(matches) :
              (i # j /\ Numbered(matches[i]) /\ Numbered(matches[j]))
                  => matches[i].Target # matches[j].Target

\* The first entry of the directory was skipped, the two others were sorted
\* against the directory's order and numbered 5 and 7.
C12_Witness ==
    /\ AfterReplace
    /\ Len(paths) = 3
    /\ Len(matches) = 2
    /\ matches[1].Source = paths[3].Source
    /\ matches[2].Source = paths[2].Source
    /\ matches[1].Target = <<"5">>
    /\ matches[2].Target = <<"7">>

\* sortMatches has returned in a run that is no undo.
SortedForward == pc = "sorted" /\ undoFile = ""

\* C13: after sortMatches() in a non-undo run no directory candidate precedes
\* a file candidate, and the directory candidates come by non-increasing
\* length of BaseDir.
C13_FilesThenDeepest ==
    SortedForward =>
        \A i, j \in 1..Len(matches) :
            i < j =>
                /\ ~(matches[i].IsDir /\ ~matches[j].IsDir)
                /\ (matches[i].IsDir /\ matches[j].IsDir) =>
                       StrLen(matches[i].BaseDir) >= StrLen(matches[j].BaseDir)

\* Before the sort the entry x came before the entry y.
CameBefore(x, y) == PositionIn(plan, x) < PositionIn(plan, y)

\* C17: sortMatches() only reorders: the result is a permutation of the input,
\* and candidates the ordering rule does not distinguish keep their relative
\* order: the files of a non-undo run, its directories of equal BaseDir
\* length, and in an undo run the candidates of equal BaseDir length.
C17_StablePermutation ==
    pc = "sorted" =>
        /\ Len(matches) = Len(plan)
        /\ Entries(matches) = Entries(plan)
        /\ \A i, j \in 1..Len(matches) :
              LET x == matches[i]
                  y == matches[j]
                  tied == IF undoFile # "" THEN StrLen(x.BaseDir) = StrLen(y.BaseDir)
                          ELSE \/ ~x.IsDir /\ ~y.IsDir
                               \/ x.IsDir /\ y.IsDir
                                  /\ StrLen(x.BaseDir) = StrLen(y.BaseDir)
              IN (i < j /\ tied) => CameBefore(x, y)

\* The batch has passed validation: validate() has found no conflict.
PassedValidation == Called("rename") /\ conflicts = {}

\* C14: in a batch that passes validation every rename finds its target path
\* absent, so no rename overwrites an entry, and after a run without errors
\* every entry of the batch is at its target with its content.
C14_NoClobbering ==
    PassedValidation =>
        /\ \A k \in 1..Len(attempts) : attempts[k].rename = "ok" => ~attempts[k].existed
        /\ (pc = "done" /\ errors = <<>>) =>
              \A e \in Entries(batch) :
                  /\ FullTarget(e) \in DOMAIN fs
                  /\ fs[FullTarget(e)] = fsRun[FullSource(e)]

\* The directories on the way from the working directory to the path p.
Ancestors(p) == {SubSeq(p, 1, k) : k \in 1..(Len(p) - 1)}

\* The number of errors rename() has recorded for the candidate ch.
ErrorsFor(ch) == Cardinality({k \in 1..Len(errs) : errs[k].entry = ch})

\* C15: for a candidate whose target contains a separator the directories
\* on the way to the target are created before the rename: they exist when
\* the iteration ends and a rename into a directory that was missing
\* succeeds; directories that exist already are no error; when the creation
\* fails the rename is not attempted and one error is recorded.
C15_MkdirBeforeRename ==
    \A k \in 1..Len(attempts) :
        LET a  == attempts[k]
            ch == a.entry
        IN /\ HasSeparator(ch.Target) <=> a.mkdir # "none"
           /\ a.mkdir = "failed" => a.rename = "none" /\ ErrorsFor(ch) = 1
           /\ (a.ready /\ a.inj = "none" /\ HasSeparator(ch.Target)) => a.mkdir = "ok"
           /\ (a.mkdir = "ok" /\ k = Len(attempts)) =>
                 \A q \in Ancestors(FullTarget(ch)) : IsDirAt(fs, q)
           /\ (a.mkdir = "ok" /\ a.inj = "none" /\ a.had /\ ~a.existed
                 /\ ~IsPrefix(FullSource(ch), FullTarget(ch))) => a.rename = "ok"

\* A rename into a directory that the iteration had to create.
C15_Witness ==
    /\ Len(attempts) >= 1
    /\ attempts[1].mkdir = "ok"
    /\ ~attempts[1].ready
    /\ attempts[1].rename = "ok"
    /\ FullTarget(attempts[1].entry) \in DOMAIN fs

\* The expansion of the template fails for the candidate m: the variable has
\* no value for it, or the numbering token is malformed.
ExpansionFails(m) ==
    \/ TokenOf(m) = VarToken /\ Base(m.Source) \in Unreadable
    \/ TokenOf(m) = BadIndexToken

\* C16: when the expansion of a variable or numbering token fails for a
\* candidate, run() returns that error from replace(): validate() and apply()
\* are not reached, and nothing has been renamed, created or written, for the
\* candidates before the failing one either.
C16_TransformerAborts ==
    /\ (Called("replace") /\ \E m \in Entries(matches) : ExpansionFails(m))
          => pc = "done" /\ ret = ErrReplace
    /\ ret = ErrReplace =>
          /\ pc = "done"
          /\ ~Called("validate")
          /\ ~Called("rename")
          /\ ~Called("writeToFile")
          /\ conflicts = {}
          /\ attempts = <<>>
          /\ fs = fsRun
          /\ files = <<>>

\* The expansion failed for the second candidate after the first had its target.
C16_Witness ==
    /\ ret = ErrReplace
    /\ exec
    /\ Len(matches) >= 2
    /\ matches[1].Target # <<>>
    /\ ExpansionFails(matches[2])

====
